---------------------------- MODULE Spec2Model ----------------------------
(***************************************************************************)
(* A model of linkedin_games_scraper/solver.py (class GameSolver): the     *)
(* traffic matcher _find_game_response, the six _find_<game>_solution      *)
(* extractors, the solve_<game> polling loops and solve_all_games.         *)
(*                                                                         *)
(* JSON values (what json.loads returns) and the Python values built from  *)
(* them are records tagged by kind:                                        *)
(*   null  [k |-> "null"]            Python None                           *)
(*   bool  [k |-> "bool", b |-> _]                                         *)
(*   num   [k |-> "num",  n |-> _]   an int                                *)
(*   str   [k |-> "str",  s |-> _]   s a sequence of one-character strings *)
(*   list  [k |-> "list", l |-> _]   l a sequence of values                *)
(*   obj   [k |-> "obj",  d |-> _]   d a function from key names to values *)
(*   tuple [k |-> "tuple", l |-> _]  a Python tuple                        *)
(* An exception that is propagating is the value Raise.                    *)
(***************************************************************************)
EXTENDS Integers, Sequences, FiniteSets, TLC

VARIABLES
    requests,   \* self.driver.requests: the captured-traffic ledger
    results,    \* self.results["data"]: the ResultStore
    saved,      \* what save_results last wrote to the results file
    allres,     \* the local dict `results` of solve_all_games
    caller,     \* the method under way: "solve_all_games" or "find_game_response"
    pc,         \* where the caller is: "start", "loop", "cleanup", "done", ...
    game,       \* index into GameOrder of the solve_<game> call in progress
    now,        \* time.time(), measured from the start of the current window
    end_time,   \* local end_time of the solve_<game> call in progress
    solution,   \* local `solution` of the solve_<game> call in progress
    epoch,      \* number of ledger resets so far (history)
    status,     \* per game: "Idle", "Probing", "Solved", "TimedOut", "Aborted" (history)
    returned,   \* per game: what solve_<game> returned (history)
    firstVal,   \* first non-None value the extractor returned in this window (history)
    absentPolls,\* polls of this window that returned None before firstVal (history)
    probesAfter,\* probes made in this window after firstVal was returned (history)
    writes,     \* polls of this window that wrote the game's ResultStore key (history)
    call,       \* outcome of the last matcher / extractor call (history)
    drawn       \* how the input of the run was drawn (history)

vars == <<requests, results, saved, allres, caller, pc, game, now, end_time, solution,
          epoch, status, returned, firstVal, absentPolls, probesAfter, writes, call,
          drawn>>

-----------------------------------------------------------------------------
(* Bounds of the model.                                                    *)

\* Longest ledger the browser collaborator builds in one window.
MaxLedger == 2

\* timeout_seconds of solve_<game> (the code's default is 30), scaled down.
TimeoutSeconds == 3

\* Longest ledger drawn for the matcher taken alone.
MaxScan == 3

-----------------------------------------------------------------------------
(* Values.                                                                 *)

JNull == [k |-> "null"]
JBool(b) == [k |-> "bool", b |-> b]
JNum(n) == [k |-> "num", n |-> n]
JStr(s) == [k |-> "str", s |-> s]
JList(l) == [k |-> "list", l |-> l]
JObj(d) == [k |-> "obj", d |-> d]
PyTuple(l) == [k |-> "tuple", l |-> l]

\* The empty dict.
NoKeys == [x \in {} |-> JNull]

\* A propagating exception (KeyError, IndexError, TypeError, AttributeError,
\* UnicodeDecodeError, JSONDecodeError: the code catches them all alike).
Raise == [k |-> "raise"]

\* A key that self.results["data"] does not hold.
Absent == [k |-> "absent"]

\* bool(v): Python truthiness, as used by `if data:`, `if solution:`,
\* `not solution` and `a and b`.
Truthy(v) ==
    CASE v.k = "null" -> FALSE
      [] v.k = "bool" -> v.b
      [] v.k = "num" -> v.n # 0
      [] v.k = "str" -> v.s # <<>>
      [] v.k = "list" -> v.l # <<>>
      [] v.k = "tuple" -> v.l # <<>>
      [] v.k = "obj" -> DOMAIN v.d # {}
      [] OTHER -> FALSE

\* v[key] for a string key: a dict lookup; KeyError when the key is missing,
\* TypeError on anything that is not a dict. An exception in v propagates.
GetKey(v, key) ==
    IF v.k = "obj" /\ key \in DOMAIN v.d THEN v.d[key] ELSE Raise

\* v[i] for the integer i = 0: the first element of a list, the first
\* character of a string; IndexError when empty, KeyError on a dict (JSON keys
\* are strings), TypeError on a number, a bool or None.
GetFirst(v) ==
    CASE v.k = "list" -> IF v.l # <<>> THEN v.l[1] ELSE Raise
      [] v.k = "str" -> IF v.s # <<>> THEN JStr(<<v.s[1]>>) ELSE Raise
      [] OTHER -> Raise

\* v.get(key, default): AttributeError on anything that is not a dict.
DictGet(v, key, default) ==
    IF v.k # "obj" THEN Raise
    ELSE IF key \in DOMAIN v.d THEN v.d[key] ELSE default

\* The keys of a dict as a list of strings, in some order (a key is written
\* as a string of one piece).
RECURSIVE KeyList(_)
KeyList(keys) ==
    IF keys = {} THEN <<>>
    ELSE LET key == CHOOSE x \in keys : TRUE
         IN  <<JStr(<<key>>)>> \o KeyList(keys \ {key})

\* What `for item in v` runs through, as a list: the elements of a list, the
\* characters of a string, the keys of a dict; Raise (TypeError) on a number,
\* a bool or None.
Items(v) ==
    CASE v.k = "list" -> v
      [] v.k = "str" -> JList([i \in 1..Len(v.s) |-> JStr(<<v.s[i]>>)])
      [] v.k = "obj" -> JList(KeyList(DOMAIN v.d))
      [] OTHER -> Raise

-----------------------------------------------------------------------------
(* The game table.                                                         *)

\* An order in which queens is solved before zip.
GameOrderQueensBeforeZip ==
    <<"pinpoint", "crossclimb", "queens", "zip", "tango", "mini_sudoku">>

\* The order in which solve_all_games calls the solve_<game> methods.
GameOrder == <<"pinpoint", "crossclimb", "zip", "queens", "tango", "mini_sudoku">>

Games == {GameOrder[i] : i \in 1..Len(GameOrder)}

\* GAME_URLS: the page each game is played on.
GAME_URLS ==
    [pinpoint |-> "https://www.linkedin.com/games/pinpoint",
     crossclimb |-> "https://www.linkedin.com/games/crossclimb",
     zip |-> "https://www.linkedin.com/games/zip",
     queens |-> "https://www.linkedin.com/games/queens",
     tango |-> "https://www.linkedin.com/games/tango",
     mini_sudoku |-> "https://www.linkedin.com/games/mini-sudoku"]

\* A table in which the identifier of tango begins with the digit of pinpoint's.
TypeIdsTangoSixteen ==
    [pinpoint |-> 1, crossclimb |-> 2, queens |-> 3, tango |-> 16, zip |-> 6,
     mini_sudoku |-> 7]

\* A table in which zip shares the identifier of queens.
TypeIdsZipSharesQueens ==
    [pinpoint |-> 1, crossclimb |-> 2, queens |-> 3, tango |-> 5, zip |-> 3,
     mini_sudoku |-> 7]

\* The identifiers 1, 2, 3, 5, 6, 7 handed out in the order the games are solved.
TypeIdsInSolveOrder ==
    [pinpoint |-> 1, crossclimb |-> 2, zip |-> 3, queens |-> 5, tango |-> 6,
     mini_sudoku |-> 7]

\* GAME_TYPE_IDS: the number that correlates traffic to a game.
GAME_TYPE_IDS ==
    [pinpoint |-> 1, crossclimb |-> 2, queens |-> 3, tango |-> 5, zip |-> 6,
     mini_sudoku |-> 7]

-----------------------------------------------------------------------------
(* URLs and the matcher.                                                   *)
(* A URL is a sequence of pieces of text; `pat in url` is the search for   *)
(* the pieces of pat as a contiguous run of the pieces of url.             *)

Contains(url, pat) ==
    \E i \in 1..(Len(url) - Len(pat) + 1) : SubSeq(url, i, i + Len(pat) - 1) = pat

\* str(n) for n >= 0, one piece per decimal digit.
RECURSIVE Decimal(_)
Decimal(n) ==
    LET digit == <<"0", "1", "2", "3", "4", "5", "6", "7", "8", "9">>[(n % 10) + 1]
    IN  IF n < 10 THEN <<digit>> ELSE Decimal(n \div 10) \o <<digit>>

GraphqlPath == <<"voyager/api/graphql">>
GamesQuery == <<"voyagerIdentityDashGames">>
\* "voyagerIdentityDashGamesPages" begins with "voyagerIdentityDashGames".
GamesPagesQuery == <<"voyagerIdentityDashGames", "Pages">>
\* f"gameTypeId:{game_type_id}"
GameTypeParam(game_type_id) == <<"gameTypeId:">> \o Decimal(game_type_id)

\* request.response is None: no response has arrived.
NoResponse == [k |-> "none"]

\* A response body that is not UTF-8 text or not a JSON text.
Garbage == [k |-> "garbage"]

Exchange(url, response, captured) ==
    [url |-> url, response |-> response, epoch |-> captured]

\* json.loads(request.response.body.decode("utf-8")): the value the body
\* denotes, or an exception.
Decode(body) == IF body.k = "garbage" THEN Raise ELSE body

\* The URL test without its last conjunct.
UrlMatchesNoPagesTest(url, game_type_id) ==
    /\ Contains(url, GraphqlPath)
    /\ Contains(url, GameTypeParam(game_type_id))
    /\ Contains(url, GamesQuery)

\* The URL test of _find_game_response.
UrlMatches(url, game_type_id) ==
    /\ Contains(url, GraphqlPath)
    /\ Contains(url, GameTypeParam(game_type_id))
    /\ Contains(url, GamesQuery)
    /\ ~Contains(url, GamesPagesQuery)

\* The loop with a decode failure ending the scan.
RECURSIVE ScanReturnsOnCandidate(_, _, _)
ScanReturnsOnCandidate(reqs, game_type_id, i) ==
    IF i > Len(reqs) THEN [idx |-> 0, doc |-> JNull]
    ELSE IF reqs[i].response = NoResponse
         THEN ScanReturnsOnCandidate(reqs, game_type_id, i + 1)
    ELSE IF UrlMatches(reqs[i].url, game_type_id)
         THEN IF Decode(reqs[i].response) = Raise
              THEN [idx |-> 0, doc |-> JNull]
              ELSE [idx |-> i, doc |-> Decode(reqs[i].response)]
    ELSE ScanReturnsOnCandidate(reqs, game_type_id, i + 1)

\* The loop without its early return: the last candidate that decodes wins.
RECURSIVE ScanKeepsLast(_, _, _)
ScanKeepsLast(reqs, game_type_id, i) ==
    IF i > Len(reqs) THEN [idx |-> 0, doc |-> JNull]
    ELSE LET rest == ScanKeepsLast(reqs, game_type_id, i + 1)
         IN  IF /\ reqs[i].response # NoResponse
                /\ UrlMatches(reqs[i].url, game_type_id)
                /\ Decode(reqs[i].response) # Raise
                /\ rest.idx = 0
             THEN [idx |-> i, doc |-> Decode(reqs[i].response)]
             ELSE rest

\* The for loop of _find_game_response from the i-th request on: the place of
\* the exchange whose decoded body is returned and that body, or place 0 and
\* None when the loop runs out.
RECURSIVE Scan(_, _, _)
Scan(reqs, game_type_id, i) ==
    IF i > Len(reqs) THEN [idx |-> 0, doc |-> JNull]
    ELSE IF reqs[i].response = NoResponse
         THEN Scan(reqs, game_type_id, i + 1)
    ELSE IF UrlMatches(reqs[i].url, game_type_id)
         THEN IF Decode(reqs[i].response) = Raise
              THEN Scan(reqs, game_type_id, i + 1)
              ELSE [idx |-> i, doc |-> Decode(reqs[i].response)]
    ELSE Scan(reqs, game_type_id, i + 1)

\* _find_game_response(game_type_id) on the ledger reqs.
find_game_response(reqs, game_type_id) == Scan(reqs, game_type_id, 1)

-----------------------------------------------------------------------------
(* The ResultStore and the outcome of an extractor call.                   *)

\* The keys the extractors write into self.results["data"].
ResultKeys ==
    {"pinpoint", "crossclimb", "zip", "zip_sequence", "zip_grid", "queens",
     "queens_board", "queens_grid", "tango", "mini_sudoku"}

\* self.results = {"data": {}}
EmptyResults == [key \in ResultKeys |-> Absent]

\* self.results["data"][key] = value
Put(res, key, value) == [res EXCEPT ![key] = value]

\* An extractor call that returned without writing: the value returned and
\* the ResultStore as it was.
Ok(ret, res) == [ret |-> ret, results |-> res, raised |-> FALSE, wrote |-> FALSE]

\* An extractor call that wrote its entries and returned ret.
Stored(ret, res) == [ret |-> ret, results |-> res, raised |-> FALSE, wrote |-> TRUE]

\* A statement sequence left by an exception.
Thrown(res) == [ret |-> JNull, results |-> res, raised |-> TRUE, wrote |-> FALSE]

\* A handler that lets the exception of the try block go on propagating.
ExceptReraise(o) == o

\* `except Exception as e: logger.error(...)`, after which the extractor falls
\* through to its final `return None`.
ExceptLogError(o) == IF o.raised THEN Ok(JNull, o.results) ELSE o

\* data["included"][0]["gamePuzzle"][puzzle]
PuzzleAt(data, puzzle) ==
    GetKey(GetKey(GetFirst(GetKey(data, "included")), "gamePuzzle"), puzzle)

-----------------------------------------------------------------------------
(* Pinpoint.                                                               *)

PinpointBody(data, res) ==
    LET sol == GetFirst(GetKey(PuzzleAt(data, "blueprintGamePuzzle"), "solutions"))
    IN  IF sol = Raise THEN Thrown(res)
        ELSE Stored(sol, Put(res, "pinpoint", sol))

find_pinpoint_solution(reqs, res) ==
    LET data == find_game_response(reqs, GAME_TYPE_IDS["pinpoint"]).doc
    IN  IF Truthy(data) THEN ExceptLogError(PinpointBody(data, res))
        ELSE Ok(JNull, res)

-----------------------------------------------------------------------------
(* Tango.                                                                  *)

StrONE == JStr(<<"O", "N", "E">>)

\* The loop over solution_array, with the comparison inverted.
RECURSIVE TangoBitsInverted(_)
TangoBitsInverted(items) ==
    IF items = <<>> THEN <<>>
    ELSE <<IF Head(items) = StrONE THEN "0" ELSE "1">> \o TangoBitsInverted(Tail(items))

\* The loop over solution_array: "1" for an item equal to "ONE", else "0".
RECURSIVE TangoBits(_)
TangoBits(items) ==
    IF items = <<>> THEN <<>>
    ELSE <<IF Head(items) = StrONE THEN "1" ELSE "0">> \o TangoBits(Tail(items))

TangoBody(data, res) ==
    LET solution_array == GetKey(PuzzleAt(data, "lotkaGamePuzzle"), "solution")
        items == Items(solution_array)
    IN  IF items = Raise THEN Thrown(res)
        ELSE LET sol == JStr(TangoBits(items.l))
             IN  Stored(sol, Put(res, "tango", sol))

find_tango_solution(reqs, res) ==
    LET data == find_game_response(reqs, GAME_TYPE_IDS["tango"]).doc
    IN  IF Truthy(data) THEN ExceptLogError(TangoBody(data, res))
        ELSE Ok(JNull, res)

-----------------------------------------------------------------------------
(* Zip.                                                                    *)

ZipBody(data, res) ==
    LET puzzle == PuzzleAt(data, "trailGamePuzzle")
        sequence == GetKey(puzzle, "orderedSequence")
        sol == GetKey(puzzle, "solution")
        grid == GetKey(puzzle, "gridSize")
    IN  IF sequence = Raise \/ sol = Raise \/ grid = Raise THEN Thrown(res)
        ELSE Stored(sequence,
                    Put(Put(Put(res, "zip", sol), "zip_sequence", sequence), "zip_grid", grid))

find_zip_solution(reqs, res) ==
    LET data == find_game_response(reqs, GAME_TYPE_IDS["zip"]).doc
    IN  IF Truthy(data) THEN ExceptLogError(ZipBody(data, res))
        ELSE Ok(JNull, res)

-----------------------------------------------------------------------------
(* Queens.                                                                 *)

\* The first loop of _find_queens_solution: the (row, col) tuples, in order.
RECURSIVE QueenPairs(_)
QueenPairs(items) ==
    IF items = <<>> THEN JList(<<>>)
    ELSE LET row == GetKey(Head(items), "row")
             col == GetKey(Head(items), "col")
             rest == QueenPairs(Tail(items))
         IN  IF row = Raise \/ col = Raise \/ rest = Raise THEN Raise
             ELSE JList(<<PyTuple(<<row, col>>)>> \o rest.l)

\* The second loop: each row's "colors", in order.
RECURSIVE BoardRows(_)
BoardRows(items) ==
    IF items = <<>> THEN JList(<<>>)
    ELSE LET colors == GetKey(Head(items), "colors")
             rest == BoardRows(Tail(items))
         IN  IF colors = Raise \/ rest = Raise THEN Raise
             ELSE JList(<<colors>> \o rest.l)

\* An extractor that writes 'queens' as soon as the pairs are made, before
\* the board is read.
QueensBodyWritesFirst(data, res) ==
    LET puzzle == PuzzleAt(data, "queensGamePuzzle")
        queens == Items(GetKey(puzzle, "solution"))
        board == Items(GetKey(puzzle, "colorGrid"))
        grid == GetKey(puzzle, "gridSize")
        sol == IF queens = Raise THEN Raise ELSE QueenPairs(queens.l)
        board_setup == IF board = Raise THEN Raise ELSE BoardRows(board.l)
    IN  IF sol = Raise THEN Thrown(res)
        ELSE IF grid = Raise \/ board_setup = Raise THEN Thrown(Put(res, "queens", sol))
        ELSE Stored(sol,
                    Put(Put(Put(res, "queens", sol), "queens_board", board_setup),
                    "queens_grid", grid))

QueensBody(data, res) ==
    LET puzzle == PuzzleAt(data, "queensGamePuzzle")
        queens == Items(GetKey(puzzle, "solution"))
        board == Items(GetKey(puzzle, "colorGrid"))
        grid == GetKey(puzzle, "gridSize")
        sol == IF queens = Raise THEN Raise ELSE QueenPairs(queens.l)
        board_setup == IF board = Raise THEN Raise ELSE BoardRows(board.l)
    IN  IF grid = Raise \/ sol = Raise \/ board_setup = Raise THEN Thrown(res)
        ELSE Stored(sol,
                    Put(Put(Put(res, "queens", sol), "queens_board", board_setup),
                    "queens_grid", grid))

find_queens_solution(reqs, res) ==
    LET data == find_game_response(reqs, GAME_TYPE_IDS["queens"]).doc
    IN  IF Truthy(data) THEN ExceptLogError(QueensBody(data, res))
        ELSE Ok(JNull, res)

-----------------------------------------------------------------------------
(* CrossClimb.                                                             *)

\* The integer Python compares a sort key as: an int, or a bool (False is 0,
\* True is 1).
KeyInt(v) == IF v.k = "bool" THEN (IF v.b THEN 1 ELSE 0) ELSE v.n

\* Whether a sort key is a number. Two keys that are not both numbers are
\* compared by `<` only when the list has two or more rungs; of such keys the
\* model draws None, strings and missing ones against numbers and each other,
\* where `<` raises TypeError or, for two strings, is drawn as equal strings.
IsNumKey(v) == v.k = "num" \/ v.k = "bool"

\* x["solutionRungIndex"] of every rung, in order.
RECURSIVE RungKeys(_)
RungKeys(items) ==
    IF items = <<>> THEN JList(<<>>)
    ELSE LET key == GetKey(Head(items), "solutionRungIndex")
             rest == RungKeys(Tail(items))
         IN  IF key = Raise \/ rest = Raise THEN Raise
             ELSE JList(<<key>> \o rest.l)

\* An insertion that puts rung x before the rungs of equal key.
RECURSIVE InsertRungBeforeEqual(_, _)
InsertRungBeforeEqual(sorted, x) ==
    IF sorted = <<>> THEN <<x>>
    ELSE IF KeyInt(x.d["solutionRungIndex"]) <= KeyInt(Head(sorted).d["solutionRungIndex"])
         THEN <<x>> \o sorted
         ELSE <<Head(sorted)>> \o InsertRungBeforeEqual(Tail(sorted), x)

\* Insert rung x behind the rungs of the sorted list whose key is not greater.
RECURSIVE InsertRung(_, _)
InsertRung(sorted, x) ==
    IF sorted = <<>> THEN <<x>>
    ELSE IF KeyInt(x.d["solutionRungIndex"]) < KeyInt(Head(sorted).d["solutionRungIndex"])
         THEN <<x>> \o sorted
         ELSE <<Head(sorted)>> \o InsertRung(Tail(sorted), x)

\* sorted(rungs, key=...) for number keys: ascending, equal keys in input order.
RECURSIVE SortRungs(_)
SortRungs(items) ==
    IF items = <<>> THEN <<>>
    ELSE InsertRung(SortRungs(SubSeq(items, 1, Len(items) - 1)), items[Len(items)])

\* [(rung["solutionRungIndex"], rung["word"]) for rung in sorted_rungs]
RECURSIVE RungPairs(_)
RungPairs(items) ==
    IF items = <<>> THEN JList(<<>>)
    ELSE LET word == GetKey(Head(items), "word")
             rest == RungPairs(Tail(items))
         IN  IF word = Raise \/ rest = Raise THEN Raise
             ELSE JList(<<PyTuple(<<Head(items).d["solutionRungIndex"], word>>)>> \o rest.l)

CrossclimbBody(data, res) ==
    LET rungs == Items(GetKey(PuzzleAt(data, "crossClimbGamePuzzle"), "rungs"))
        keys == IF rungs = Raise THEN Raise ELSE RungKeys(rungs.l)
        sorted_rungs ==
            IF keys = Raise THEN Raise
            ELSE IF Len(keys.l) <= 1 THEN rungs
            ELSE IF \A i \in 1..Len(keys.l) : IsNumKey(keys.l[i])
                 THEN JList(SortRungs(rungs.l))
            ELSE IF \A i \in 1..Len(keys.l) : keys.l[i] = keys.l[1] /\ keys.l[i].k = "str"
                 THEN rungs
            ELSE Raise
        sol == IF sorted_rungs = Raise THEN Raise ELSE RungPairs(sorted_rungs.l)
    IN  IF sol = Raise THEN Thrown(res)
        ELSE Stored(sol, Put(res, "crossclimb", sol))

find_crossclimb_solution(reqs, res) ==
    LET data == find_game_response(reqs, GAME_TYPE_IDS["crossclimb"]).doc
    IN  IF Truthy(data) THEN ExceptLogError(CrossclimbBody(data, res))
        ELSE Ok(JNull, res)

-----------------------------------------------------------------------------
(* Mini Sudoku.                                                            *)

\* mini_sudoku_puzzle.get("gridRowSize", 6)
DefaultGridSize == 6

StrIncluded == JStr(<<"i", "n", "c", "l", "u", "d", "e", "d">>)
StrUnknown == JStr(<<"U", "n", "k", "n", "o", "w", "n">>)

\* `"included" in data`: a key of a dict, an element of a list, a substring
\* of a string; TypeError on a number or a bool.
HasIncluded(data) ==
    CASE data.k = "obj" -> IF "included" \in DOMAIN data.d THEN "yes" ELSE "no"
      [] data.k = "list" ->
            IF \E i \in 1..Len(data.l) : data.l[i] = StrIncluded THEN "yes" ELSE "no"
      [] data.k = "str" -> IF Contains(data.s, StrIncluded.s) THEN "yes" ELSE "no"
      [] OTHER -> "raise"

\* `game_puzzle and game_puzzle.get("miniSudokuGamePuzzle")` as a condition.
PuzzleFieldTest(game_puzzle) ==
    IF ~Truthy(game_puzzle) THEN "no"
    ELSE LET field == DictGet(game_puzzle, "miniSudokuGamePuzzle", JNull)
         IN  IF field = Raise THEN "raise"
             ELSE IF Truthy(field) THEN "yes" ELSE "no"

\* The search loop over data["included"]: the place of the item it breaks at
\* (0 when it runs out), or Raise.
RECURSIVE SearchPuzzle(_, _)
SearchPuzzle(items, i) ==
    IF i > Len(items) THEN JNum(0)
    ELSE LET game_puzzle == DictGet(items[i], "gamePuzzle", JNull)
         IN  IF game_puzzle = Raise THEN Raise
             ELSE IF PuzzleFieldTest(game_puzzle) = "raise" THEN Raise
             ELSE IF PuzzleFieldTest(game_puzzle) = "yes" THEN JNum(i)
             ELSE SearchPuzzle(items, i + 1)

\* The logging loop of the "No Mini Sudoku puzzle found" branch raises when an
\* item has a "gamePuzzle" that is not a dict (game_puzzle.keys()).
DiagnosticsRaise(items) ==
    \E i \in 1..Len(items) :
        \/ items[i].k # "obj"
        \/ /\ "gamePuzzle" \in DOMAIN items[i].d
           /\ items[i].d["gamePuzzle"].k # "obj"

\* `for i in range(grid_size): row = solution[start_idx:end_idx]` raises when
\* grid_size is no int, or when there is a first round and solution cannot be
\* sliced.
RowLoggingRaises(sol, grid_size) ==
    \/ ~(grid_size.k = "num" \/ grid_size.k = "bool")
    \/ /\ KeyInt(grid_size) >= 1
       /\ sol.k \notin {"list", "str", "tuple"}

\* Lines 245-267: from the found puzzle object to the recorded entry.
RecordPuzzle(puzzle, res) ==
    LET sol == GetKey(puzzle, "solution")
        grid_size == DictGet(puzzle, "gridRowSize", JNum(DefaultGridSize))
        preset_cells == DictGet(puzzle, "presetCellIdxes", JList(<<>>))
        title == DictGet(puzzle, "name", StrUnknown)
    IN  IF sol = Raise THEN Thrown(res)
        ELSE IF RowLoggingRaises(sol, grid_size) THEN Thrown(res)
        ELSE Stored(sol,
                Put(res, "mini_sudoku",
                    JObj([solution |-> sol, grid_size |-> grid_size,
                          preset_cells |-> preset_cells, title |-> title])))

MiniSudokuBody(data, res) ==
    IF HasIncluded(data) = "raise" THEN Thrown(res)
    ELSE IF HasIncluded(data) = "yes" /\ GetKey(data, "included") = Raise THEN Thrown(res)
    ELSE IF HasIncluded(data) = "yes" /\ Truthy(GetKey(data, "included"))
    THEN LET items == Items(GetKey(data, "included"))
             at == IF items = Raise THEN Raise ELSE SearchPuzzle(items.l, 1)
         IN  IF at = Raise THEN Thrown(res)
             ELSE IF at.n = 0
                  THEN (IF DiagnosticsRaise(items.l) THEN Thrown(res) ELSE Ok(JNull, res))
             ELSE RecordPuzzle(items.l[at.n].d["gamePuzzle"].d["miniSudokuGamePuzzle"], res)
    ELSE IF data.k # "obj" THEN Thrown(res)
    ELSE Ok(JNull, res)

find_mini_sudoku_solution(reqs, res) ==
    LET data == find_game_response(reqs, GAME_TYPE_IDS["mini_sudoku"]).doc
    IN  IF Truthy(data) THEN ExceptLogError(MiniSudokuBody(data, res))
        ELSE Ok(JNull, res)

\* The _find_<game>_solution method of game g.
Extract(g, reqs, res) ==
    CASE g = "pinpoint" -> find_pinpoint_solution(reqs, res)
      [] g = "crossclimb" -> find_crossclimb_solution(reqs, res)
      [] g = "zip" -> find_zip_solution(reqs, res)
      [] g = "queens" -> find_queens_solution(reqs, res)
      [] g = "tango" -> find_tango_solution(reqs, res)
      [] g = "mini_sudoku" -> find_mini_sudoku_solution(reqs, res)

-----------------------------------------------------------------------------
(* Documents and traffic.                                                  *)

\* The key of gamePuzzle each extractor reads.
PuzzleKey ==
    [pinpoint |-> "blueprintGamePuzzle", crossclimb |-> "crossClimbGamePuzzle",
     zip |-> "trailGamePuzzle", queens |-> "queensGamePuzzle",
     tango |-> "lotkaGamePuzzle", mini_sudoku |-> "miniSudokuGamePuzzle"]

\* {"included": [{"gamePuzzle": {<key>: puzzle}}]}
Wrap(key, puzzle) ==
    JObj([included |-> JList(<<JObj([gamePuzzle |-> JObj(key :> puzzle)])>>)])

Nums(seq) == JList([i \in 1..Len(seq) |-> JNum(seq[i])])

Rung(index, word) == JObj([solutionRungIndex |-> index, word |-> JStr(<<word>>)])

\* A well-formed puzzle object of each game.
GoodPuzzle ==
    [pinpoint |-> JObj([solutions |-> JList(<<JStr(<<"k", "e", "y">>)>>)]),
     crossclimb |-> JObj([rungs |-> JList(<<Rung(JNum(1), "B"), Rung(JNum(0), "A"),
                                            Rung(JNum(2), "C")>>)]),
     zip |-> JObj([orderedSequence |-> Nums(<<3, 1>>), solution |-> Nums(<<0, 1, 3, 2>>),
                   gridSize |-> JNum(2)]),
     queens |-> JObj([solution |-> JList(<<JObj([row |-> JNum(0), col |-> JNum(1)]),
                                           JObj([row |-> JNum(1), col |-> JNum(0)])>>),
                      colorGrid |-> JList(<<JObj([colors |-> Nums(<<0, 1>>)]),
                                            JObj([colors |-> Nums(<<1, 1>>)])>>),
                      gridSize |-> JNum(2)]),
     tango |-> JObj([solution |-> JList(<<StrONE, JStr(<<"T", "W", "O">>), StrONE>>)]),
     mini_sudoku |-> JObj([solution |-> Nums(<<1, 2, 2, 1>>), gridRowSize |-> JNum(2),
                           presetCellIdxes |-> Nums(<<0>>), name |-> JStr(<<"M">>)])]

\* A puzzle object whose solution is there and empty.
EmptyPuzzle ==
    [pinpoint |-> JObj([solutions |-> JList(<<JStr(<<>>)>>)]),
     crossclimb |-> JObj([rungs |-> JList(<<>>)]),
     zip |-> JObj([orderedSequence |-> JList(<<>>), solution |-> JList(<<>>),
                   gridSize |-> JNum(0)]),
     queens |-> JObj([solution |-> JList(<<>>), colorGrid |-> JList(<<>>),
                      gridSize |-> JNum(0)]),
     tango |-> JObj([solution |-> JList(<<>>)]),
     mini_sudoku |-> JObj([solution |-> JList(<<>>), gridRowSize |-> JNum(0)])]

\* A URL of the puzzle endpoint carrying gameTypeId:<id>.
GameUrl(id) ==
    <<"https://www.linkedin.com/", "voyager/api/graphql", "?variables=(">>
        \o GameTypeParam(id) \o <<")&queryId=">> \o GamesQuery \o <<".0f5c">>

\* A URL of the pages-listing endpoint carrying gameTypeId:<id>.
PagesUrl(id) ==
    <<"https://www.linkedin.com/", "voyager/api/graphql", "?variables=(">>
        \o GameTypeParam(id) \o <<")&queryId=">> \o GamesPagesQuery \o <<".9a1b">>

\* The game solve_all_games runs after g (the first after the last).
NextGame(g) ==
    LET i == CHOOSE j \in 1..Len(GameOrder) : GameOrder[j] = g
    IN  GameOrder[(i % Len(GameOrder)) + 1]

\* What the browser may capture while game g is on the page: the game's own
\* response with a solution, with an empty solution, without the puzzle
\* payload, and a response addressed to another game.
Traffic(g) ==
    {[url |-> GameUrl(GAME_TYPE_IDS[g]), response |-> Wrap(PuzzleKey[g], GoodPuzzle[g])],
     [url |-> GameUrl(GAME_TYPE_IDS[g]), response |-> Wrap(PuzzleKey[g], EmptyPuzzle[g])],
     [url |-> GameUrl(GAME_TYPE_IDS[g]), response |-> JObj([included |-> JList(<<>>)])],
     [url |-> GameUrl(GAME_TYPE_IDS[NextGame(g)]),
      response |-> Wrap(PuzzleKey[NextGame(g)], GoodPuzzle[NextGame(g)])]}

-----------------------------------------------------------------------------
(* The polling loops and solve_all_games.                                  *)

\* time.sleep(1) between two polls.
PollInterval == 1

\* The ledger with every exchange kept.
KeptRequests(reqs) == reqs

\* `del self.driver.requests`
ClearedRequests(reqs) == <<>>

NoCall ==
    [game |-> "", idx |-> 0, doc |-> JNull, ret |-> JNull, raised |-> FALSE, wrote |-> FALSE]

\* The state after GameSolver.__init__, before the caller's first call.
InitSolver ==
    /\ results = EmptyResults
    /\ saved = Absent
    /\ allres = [g \in Games |-> Absent]
    /\ now = 0
    /\ end_time = 0
    /\ solution = JNull
    /\ epoch = 0
    /\ status = [g \in Games |-> "Idle"]
    /\ returned = [g \in Games |-> Absent]
    /\ firstVal = JNull
    /\ absentPolls = 0
    /\ probesAfter = 0
    /\ writes = 0
    /\ call = NoCall

Init ==
    /\ InitSolver
    /\ caller = "solve_all_games"
    /\ game = 1
    /\ requests = <<>>
    /\ pc = "start"
    /\ drawn = [kind |-> "run"]

\* The browser collaborator appends an exchange to the ledger.
Capture ==
    /\ pc \in {"start", "loop"}
    /\ Len(requests) < MaxLedger
    /\ \E e \in Traffic(GameOrder[game]) :
          requests' = Append(requests, Exchange(e.url, e.response, epoch))
    /\ UNCHANGED <<results, saved, allres, caller, pc, game, now, end_time, solution,
                   epoch, status, returned, firstVal, absentPolls, probesAfter, writes,
                   call, drawn>>

\* solve_<game> up to its loop: _start_game (the reset, the navigation), then
\* end_time and solution are set.
StartGame ==
    /\ pc = "start"
    /\ requests' = ClearedRequests(requests)
    /\ epoch' = epoch + 1
    /\ now' = 0
    /\ end_time' = TimeoutSeconds
    /\ solution' = JNull
    /\ pc' = "loop"
    /\ status' = [status EXCEPT ![GameOrder[game]] = "Probing"]
    /\ firstVal' = JNull
    /\ absentPolls' = 0
    /\ probesAfter' = 0
    /\ writes' = 0
    /\ call' = NoCall
    /\ UNCHANGED <<results, saved, allres, caller, game, returned, drawn>>

\* Where solve_all_games goes on when solve_<game> has returned: to the next
\* solve_<game>, and after the last one to its finally clause.
PcAfterGame == IF game < Len(GameOrder) THEN "start" ELSE "cleanup"
GameAfterGame == IF game < Len(GameOrder) THEN game + 1 ELSE game

\* A loop that goes on whatever the time is.
LoopIgnoresDeadline(t, end, sol) == ~Truthy(sol)

\* `while time.time() < end_time and not solution`
LoopCondition(t, end, sol) == t < end /\ ~Truthy(sol)

\* One round of the while loop of solve_<game>: the extractor is called; a
\* truthy solution breaks the loop and solve_<game> returns it to the caller,
\* anything else is followed by the sleep. An exception out of the extractor
\* leaves solve_<game> and reaches the caller's finally clause.
Poll ==
    /\ pc = "loop"
    /\ LoopCondition(now, end_time, solution)
    /\ \E g \in {GameOrder[game]} :
       \E m \in {find_game_response(requests, GAME_TYPE_IDS[g])} :
       \E o \in {Extract(g, requests, results)} :
           /\ call' = [game |-> g, idx |-> m.idx, doc |-> m.doc, ret |-> o.ret,
                       raised |-> o.raised, wrote |-> o.wrote]
           /\ results' = o.results
           /\ firstVal' = IF firstVal = JNull THEN o.ret ELSE firstVal
           /\ absentPolls' = IF firstVal = JNull /\ o.ret = JNull /\ ~o.raised
                             THEN absentPolls + 1 ELSE absentPolls
           /\ probesAfter' = IF firstVal # JNull THEN probesAfter + 1 ELSE probesAfter
           /\ writes' = IF o.wrote THEN writes + 1 ELSE writes
           /\ IF o.raised
              THEN /\ pc' = "cleanup"
                   /\ status' = [status EXCEPT ![g] = "Aborted"]
                   /\ UNCHANGED <<solution, now, game, returned, allres>>
              ELSE IF Truthy(o.ret)
              THEN /\ solution' = o.ret
                   /\ pc' = PcAfterGame
                   /\ game' = GameAfterGame
                   /\ status' = [status EXCEPT ![g] = "Solved"]
                   /\ returned' = [returned EXCEPT ![g] = o.ret]
                   /\ allres' = [allres EXCEPT ![g] = o.ret]
                   /\ now' = now
              ELSE /\ solution' = o.ret
                   /\ now' = now + PollInterval
                   /\ UNCHANGED <<pc, game, status, returned, allres>>
    /\ UNCHANGED <<requests, saved, caller, end_time, epoch, drawn>>

\* The loop of solve_<game> ends on the deadline: the warning "No ... solution
\* found (timeout)", and solve_<game> returns its falsy solution.
TimeOut ==
    /\ pc = "loop"
    /\ ~LoopCondition(now, end_time, solution)
    /\ pc' = PcAfterGame
    /\ game' = GameAfterGame
    /\ status' = [status EXCEPT ![GameOrder[game]] = "TimedOut"]
    /\ returned' = [returned EXCEPT ![GameOrder[game]] = solution]
    /\ UNCHANGED <<requests, results, saved, allres, caller, now, end_time, solution,
                   epoch, firstVal, absentPolls, probesAfter, writes, call, drawn>>

\* cleanup(): the browser is closed and save_results writes self.results.
Cleanup ==
    /\ pc = "cleanup"
    /\ saved' = results
    /\ pc' = "done"
    /\ UNCHANGED <<requests, results, allres, caller, game, now, end_time, solution,
                   epoch, status, returned, firstVal, absentPolls, probesAfter, writes,
                   call, drawn>>

Next == Capture \/ StartGame \/ Poll \/ TimeOut \/ Cleanup

Spec == Init /\ [][Next]_vars

\* Poll is enabled exactly when the loop condition holds: the extractor
\* returns or is caught on every ledger, and a poll always changes the time
\* or the place in the program.
PollEnabled == pc = "loop" /\ LoopCondition(now, end_time, solution)

\* WF_vars(Poll), with ENABLED <<Poll>>_vars written out as PollEnabled.
FairPoll == []<>(~PollEnabled) \/ []<><<Poll>>_vars

-----------------------------------------------------------------------------
(* The matcher taken alone: _find_game_response on drawn ledgers.          *)

\* A URL with the game-type parameter and the query name but another path.
OtherPathUrl(id) ==
    <<"https://www.linkedin.com/", "voyager/api/feed", "?variables=(">>
        \o GameTypeParam(id) \o <<")&queryId=">> \o GamesQuery \o <<".0f5c">>

\* A URL of the graphql endpoint with the game-type parameter and another query.
OtherQueryUrl(id) ==
    <<"https://www.linkedin.com/", "voyager/api/graphql", "?variables=(">>
        \o GameTypeParam(id) \o <<")&queryId=">> \o <<"voyagerFeedDashUpdates">> \o <<".77c2">>

Doc(n) == JObj([doc |-> JNum(n)])

\* The exchanges a ledger scanned for game g is drawn from; each decodable
\* body is a different document.
MatchTraffic(g) ==
    {[url |-> GameUrl(GAME_TYPE_IDS[g]), response |-> Doc(1)],
     [url |-> GameUrl(GAME_TYPE_IDS[g]), response |-> Doc(2)],
     [url |-> GameUrl(GAME_TYPE_IDS[g]), response |-> Garbage],
     [url |-> GameUrl(GAME_TYPE_IDS[g]), response |-> NoResponse],
     [url |-> PagesUrl(GAME_TYPE_IDS[g]), response |-> Doc(3)],
     [url |-> GameUrl(GAME_TYPE_IDS[NextGame(g)]), response |-> Doc(4)],
     [url |-> OtherPathUrl(GAME_TYPE_IDS[g]), response |-> Doc(5)],
     [url |-> OtherQueryUrl(GAME_TYPE_IDS[g]), response |-> Doc(6)]}

\* The ledgers of at most n exchanges of S, all captured in the current window.
Ledgers(S, n) ==
    UNION {[1..len -> {Exchange(e.url, e.response, 0) : e \in S}] : len \in 0..n}

\* A GameSolver whose ledger is drawn, about to scan it for a drawn game.
InitMatch ==
    /\ InitSolver
    /\ caller = "find_game_response"
    /\ game \in 1..Len(GameOrder)
    /\ requests \in Ledgers(MatchTraffic(GameOrder[game]), MaxScan)
    /\ pc = "match"
    /\ drawn = [kind |-> "ledger"]

\* One call of _find_game_response.
MatchOnce ==
    /\ pc = "match"
    /\ \E m \in {find_game_response(requests, GAME_TYPE_IDS[GameOrder[game]])} :
          call' = [game |-> GameOrder[game], idx |-> m.idx, doc |-> m.doc, ret |-> m.doc,
                   raised |-> m.doc = Raise, wrote |-> FALSE]
    /\ pc' = "matched"
    /\ UNCHANGED <<requests, results, saved, allres, caller, game, now, end_time,
                   solution, epoch, status, returned, firstVal, absentPolls, probesAfter,
                   writes, drawn>>

NextMatch == MatchOnce

SpecMatch == InitMatch /\ [][NextMatch]_vars

\* The exchanges of a ledger that holds the puzzle responses of all six
\* games: one addressed to each game, its body naming the game's identifier.
AllGamesTraffic ==
    {[url |-> GameUrl(GAME_TYPE_IDS[h]), response |-> Doc(GAME_TYPE_IDS[h])] : h \in Games}

\* A GameSolver whose ledger is drawn from the responses of all six games,
\* about to scan it for a drawn game.
InitAllGames ==
    /\ InitSolver
    /\ caller = "find_game_response"
    /\ game \in 1..Len(GameOrder)
    /\ requests \in Ledgers(AllGamesTraffic, MaxScan)
    /\ pc = "match"
    /\ drawn = [kind |-> "ledger"]

SpecAllGames == InitAllGames /\ [][NextMatch]_vars

-----------------------------------------------------------------------------
(* The extractors on drawn documents: solve_all_games on a session in      *)
(* which the browser captures one exchange, the drawn document, during the *)
(* window of the drawn game.                                               *)

\* Most tokens in a drawn Tango solution.
MaxTokens == 3

\* Most items in a drawn `included` list for Mini Sudoku.
MaxItems == 2

\* A key that a drawn dict does not hold.
Missing == [k |-> "missing"]

\* The values put in the place of a well-formed one.
FaultValues ==
    {JNull, JBool(TRUE), JNum(0), JNum(5), JStr(<<>>), JStr(<<"a", "b">>), JList(<<>>),
     JList(<<JNum(1)>>), JObj(NoKeys), JObj([a |-> JNum(1)])}

\* The fields each extractor reads from its puzzle object without a default.
RequiredFields ==
    [pinpoint |-> {"solutions"}, crossclimb |-> {"rungs"},
     zip |-> {"orderedSequence", "solution", "gridSize"},
     queens |-> {"solution", "colorGrid", "gridSize"}, tango |-> {"solution"},
     mini_sudoku |-> {"solution"}]

\* The dict d with key set to v, or without key when v is Missing.
SetField(d, key, v) ==
    IF v = Missing THEN [x \in (DOMAIN d) \ {key} |-> d[x]]
    ELSE [x \in (DOMAIN d) \cup {key} |-> IF x = key THEN v ELSE d[x]]

Other == [entityUrn |-> JStr(<<"u">>)]

\* The document of game g that is well formed down to `level`, where f
\* stands (or where the key is missing).
FaultDoc(g, level, field, f) ==
    CASE level = "doc" -> f
      [] level = "included" -> JObj(SetField(Other, "included", f))
      [] level = "item" ->
            JObj([included |-> IF f = Missing THEN JList(<<>>) ELSE JList(<<f>>)])
      [] level = "gamePuzzle" ->
            JObj([included |-> JList(<<JObj(SetField(Other, "gamePuzzle", f))>>)])
      [] level = "puzzle" ->
            JObj([included |->
                    JList(<<JObj([gamePuzzle |-> JObj(SetField(Other, PuzzleKey[g], f))])>>)])
      [] level = "field" -> Wrap(PuzzleKey[g], JObj(SetField(GoodPuzzle[g].d, field, f)))

Draw(kind, g, level, field, fault, doc) ==
    [kind |-> kind, game |-> g, level |-> level, field |-> field, fault |-> fault,
     doc |-> doc]

\* Every game's document with one fault, at every level of the path.
DrawnFaults ==
    {Draw("fault", g, "doc", "", f, FaultDoc(g, "doc", "", f)) :
        g \in Games, f \in FaultValues}
    \cup {Draw("fault", x[1], x[2], "", f, FaultDoc(x[1], x[2], "", f)) :
            x \in Games \X {"included", "item", "gamePuzzle", "puzzle"},
            f \in FaultValues \cup {Missing}}
    \cup UNION {{Draw("fault", g, "field", field, f, FaultDoc(g, "field", field, f)) :
                    field \in RequiredFields[g], f \in FaultValues \cup {Missing}} :
                g \in Games}

\* The tokens of a drawn Tango solution.
TokenValues == {StrONE, JStr(<<"T", "W", "O">>), JStr(<<"o", "n", "e">>), JNum(1), JNull}

DrawnTokens ==
    {Draw("tokens", "tango", "", "", Missing,
          Wrap("lotkaGamePuzzle", JObj([solution |-> JList(t)]))) :
        t \in UNION {[1..n -> TokenValues] : n \in 0..MaxTokens}}

\* The items of a drawn `included` list: without gamePuzzle, with a null or an
\* empty one, with a null, an empty, an incomplete and two complete puzzle
\* objects.
ItemValues ==
    {JObj(Other),
     JObj([gamePuzzle |-> JNull]),
     JObj([gamePuzzle |-> JObj(NoKeys)]),
     JObj([gamePuzzle |-> JObj([miniSudokuGamePuzzle |-> JNull])]),
     JObj([gamePuzzle |-> JObj([miniSudokuGamePuzzle |-> JObj(NoKeys)])]),
     JObj([gamePuzzle |-> JObj([miniSudokuGamePuzzle |-> JObj([name |-> JStr(<<"N">>)])])]),
     JObj([gamePuzzle |-> JObj([miniSudokuGamePuzzle |-> GoodPuzzle["mini_sudoku"]])]),
     JObj([gamePuzzle |-> JObj([miniSudokuGamePuzzle |->
                                    JObj([solution |-> Nums(<<2, 1, 1, 2>>),
                                          gridRowSize |-> JNum(2)])])])}

DrawnItems ==
    {Draw("items", "mini_sudoku", "", "", Missing, JObj([included |-> JList(items)])) :
        items \in UNION {[1..n -> ItemValues] : n \in 0..MaxItems}}

\* Mini Sudoku puzzle objects that have a solution, with each auxiliary field
\* missing, well formed, or null (gridRowSize also zero, larger than the
\* solution, and a string).
DrawnPuzzles ==
    {Draw("puzzle", "mini_sudoku", "", "", Missing,
          Wrap("miniSudokuGamePuzzle",
               JObj(SetField(SetField(SetField([solution |-> x[1]],
                    "gridRowSize", x[2]), "presetCellIdxes", x[3]), "name", x[4])))) :
        x \in {Nums(<<1, 2, 2, 1>>), JList(<<>>)}
              \X {Missing, JNum(2), JNum(0), JNum(9), JNull, JStr(<<"x">>)}
              \X {Missing, Nums(<<0>>), JNull}
              \X {Missing, JStr(<<"M">>), JNull}}

\* Lists of CrossClimb rungs, with indexes that repeat under different words.
MaxRungs == 3

RungValues == {Rung(JNum(i), w) : i \in 0..2, w \in {"A", "B"}}

DrawnRungs ==
    {Draw("rungs", "crossclimb", "", "", Missing,
          Wrap("crossClimbGamePuzzle", JObj([rungs |-> JList(r)]))) :
        r \in UNION {[1..n -> RungValues] : n \in 0..MaxRungs}}

DrawnDocs == DrawnFaults \cup DrawnTokens \cup DrawnItems \cup DrawnPuzzles \cup DrawnRungs

InitDocs ==
    /\ InitSolver
    /\ caller = "solve_all_games"
    /\ game = 1
    /\ requests = <<>>
    /\ pc = "start"
    /\ drawn \in DrawnDocs

\* The browser captures the drawn document, as the response of the puzzle
\* endpoint, while the drawn game is on the page.
CaptureDrawn ==
    /\ pc = "loop"
    /\ GameOrder[game] = drawn.game
    /\ requests = <<>>
    /\ requests' = <<Exchange(GameUrl(GAME_TYPE_IDS[drawn.game]), drawn.doc, epoch)>>
    /\ UNCHANGED <<results, saved, allres, caller, pc, game, now, end_time, solution,
                   epoch, status, returned, firstVal, absentPolls, probesAfter, writes,
                   call, drawn>>

NextDocs == CaptureDrawn \/ StartGame \/ Poll \/ TimeOut \/ Cleanup

SpecDocs == InitDocs /\ [][NextDocs]_vars

\* SpecDocs with the program's own steps taken whenever they can be: its
\* thread runs on and time.sleep returns, so the clock advances. Whether and
\* when the browser captures the document is left open.
SpecDocsLive ==
    SpecDocs /\ WF_vars(StartGame) /\ FairPoll /\ WF_vars(TimeOut) /\ WF_vars(Cleanup)

-----------------------------------------------------------------------------
(* Properties of the matcher (under SpecMatch).                            *)

\* The game-type identifier the scan in progress was called with.
ScannedId == GAME_TYPE_IDS[GameOrder[game]]

\* An exchange qualifies for an identifier: it has a response, and its URL
\* contains 'voyager/api/graphql', 'gameTypeId:<id>' and
\* 'voyagerIdentityDashGames' and not 'voyagerIdentityDashGamesPages'.
Qualifies(x, id) ==
    /\ x.response # NoResponse
    /\ Contains(x.url, <<"voyager/api/graphql">>)
    /\ Contains(x.url, <<"gameTypeId:">> \o Decimal(id))
    /\ Contains(x.url, <<"voyagerIdentityDashGames">>)
    /\ ~Contains(x.url, <<"voyagerIdentityDashGames", "Pages">>)

\* The places of the ledger that qualify, and those whose body decodes too.
QualifyingPlaces == {i \in 1..Len(requests) : Qualifies(requests[i], ScannedId)}
DecodablePlaces == {i \in QualifyingPlaces : requests[i].response # Garbage}

Lowest(S) == CHOOSE i \in S : \A j \in S : i <= j

\* C4 as stated: the scan returns the decoded body of the first qualifying
\* exchange in capture order; when several qualify, no exchange later than the
\* first qualifying one is returned.
C4_FirstQualifying ==
    (pc = "matched" /\ QualifyingPlaces # {}) =>
        /\ call.idx <= Lowest(QualifyingPlaces)
        /\ call.idx # 0 => call.doc = requests[Lowest(QualifyingPlaces)].response

\* C4 amended: the scan returns the decoded body of the first exchange in
\* capture order that qualifies and whose body decodes as JSON; no later such
\* exchange is returned, exchanges without a response are skipped, and when
\* there is none the result is None.
C4_FirstDecodable ==
    pc = "matched" =>
        IF DecodablePlaces = {} THEN call.idx = 0 /\ call.doc = JNull
        ELSE /\ call.idx = Lowest(DecodablePlaces)
             /\ call.doc = requests[Lowest(DecodablePlaces)].response

\* Several exchanges qualify and decode, behind one without a response, and
\* the first of them was returned.
C4_Witness ==
    /\ pc = "matched"
    /\ Cardinality(DecodablePlaces) >= 2
    /\ requests[1].response = NoResponse
    /\ call.idx = 2
    /\ call.doc # requests[3].response

\* C5: the scan never returns the body of an exchange whose URL contains
\* 'voyagerIdentityDashGamesPages', whatever else the URL contains and
\* wherever the exchange stands in the ledger.
C5_NeverPages ==
    pc = "matched" =>
        \A i \in 1..Len(requests) :
            Contains(requests[i].url, <<"voyagerIdentityDashGames", "Pages">>) =>
                (call.idx # i /\ call.doc # requests[i].response)

\* A pages-listing exchange with the graphql path, the right gameTypeId and a
\* decodable body is the only candidate of a scanned ledger, and the result
\* is None.
C5_Witness ==
    /\ pc = "matched"
    /\ Len(requests) = 1
    /\ requests[1].response \notin {NoResponse, Garbage}
    /\ Contains(requests[1].url, <<"voyager/api/graphql">>)
    /\ Contains(requests[1].url, <<"gameTypeId:">> \o Decimal(ScannedId))
    /\ Contains(requests[1].url, <<"voyagerIdentityDashGames", "Pages">>)
    /\ call.doc = JNull

\* C6: a qualifying exchange whose body does not decode neither raises nor
\* ends the scan: a later qualifying exchange with a decodable body is
\* returned by the same scan, and when no exchange yields a document (the
\* empty ledger included) the result is None.
C6_DecodeFailureSkipped ==
    pc = "matched" =>
        /\ ~call.raised
        /\ (\E i \in QualifyingPlaces : \E j \in DecodablePlaces :
                i < j /\ requests[i].response = Garbage)
             => (call.idx \in DecodablePlaces /\ call.doc = requests[call.idx].response)
        /\ DecodablePlaces = {} => call.doc = JNull

\* The first qualifying exchange has an undecodable body, and the scan
\* returned the document of a later one.
C6_Witness ==
    /\ pc = "matched"
    /\ 1 \in QualifyingPlaces
    /\ requests[1].response = Garbage
    /\ call.idx > 1
    /\ call.doc = requests[call.idx].response

-----------------------------------------------------------------------------
(* Properties of the polling loops (under Spec).                           *)

\* The game of the window the per-window history belongs to: the last game
\* whose solve_<game> was entered (none before the first).
Entered == {i \in 1..Len(GameOrder) : status[GameOrder[i]] # "Idle"}
WindowGame == GameOrder[CHOOSE i \in Entered : \A j \in Entered : j <= i]

\* The auxiliary keys written along with a game's key.
AuxKeys ==
    [pinpoint |-> {}, crossclimb |-> {}, zip |-> {"zip_sequence", "zip_grid"},
     queens |-> {"queens_board", "queens_grid"}, tango |-> {}, mini_sudoku |-> {}]

\* The value recorded for a game: its entry, and for mini_sudoku the solution
\* field of its entry.
Recorded(g) ==
    IF g = "mini_sudoku" /\ results[g].k = "obj" THEN results[g].d["solution"]
    ELSE results[g]

\* C1: once the extractor, after any number of polls that returned None, has
\* returned a value before the deadline, no further probe is made in that
\* window, and the game ends Solved with that value returned by solve_<game>
\* and recorded in the ResultStore; this for every value that is not None,
\* the empty ones included.
C1_SolvedOnFirstValue ==
    (Entered # {} /\ firstVal # JNull) =>
        /\ probesAfter = 0
        /\ status[WindowGame] = "Solved"
        /\ returned[WindowGame] = firstVal
        /\ Recorded(WindowGame) = firstVal

\* C2: a game that ended TimedOut has no entry in the ResultStore, neither
\* under its key nor under its auxiliary keys.
C2_TimedOutNoEntry ==
    \A g \in Games :
        status[g] = "TimedOut" =>
            /\ results[g] = Absent
            /\ \A key \in AuxKeys[g] : results[key] = Absent

\* C3: whenever a poll can scan the ledger, every exchange in it was captured
\* after the reset that opened the current window: nothing that was in the
\* ledger during an earlier game's window is left to be scanned.
C3_NoStaleExchange ==
    pc = "loop" => \A i \in 1..Len(requests) : requests[i].epoch = epoch

\* The second game is being polled with its own traffic in the ledger, after
\* a first game that ended with exchanges in the ledger (its solution, found
\* in one of them).
C3_Witness ==
    /\ pc = "loop"
    /\ game = 2
    /\ status[GameOrder[1]] = "Solved"
    /\ Len(requests) = MaxLedger
    /\ call.idx # 0

-----------------------------------------------------------------------------
(* Properties of the extractors (under SpecDocs).                          *)

\* The last call of the extractor scanned the drawn document.
ScannedDrawn == call.idx # 0 /\ call.game = drawn.game

\* The type each required field has in a well-formed document.
ExpectedKind ==
    [solutions |-> "list", rungs |-> "list", orderedSequence |-> "list",
     solution |-> "list", colorGrid |-> "list", gridSize |-> "num"]

\* The faults C7 names: a key on the payload path missing, null or mistyped,
\* or an empty `included` or `solutions` list.
NamedFault ==
    /\ drawn.kind = "fault"
    /\ \/ drawn.level # "field"
       \/ drawn.fault = Missing
       \/ drawn.fault = JNull
       \/ drawn.fault.k # ExpectedKind[drawn.field]
       \/ drawn.field = "solutions" /\ drawn.fault = JList(<<>>)

SequenceFields ==
    {<<"pinpoint", "solutions">>, <<"crossclimb", "rungs">>, <<"queens", "solution">>,
     <<"queens", "colorGrid">>, <<"tango", "solution">>}

\* The faults that make every extractor return None: a document that is no
\* object; `included`, its first item, gamePuzzle or the puzzle object
\* missing, null or mistyped; an empty `included` list; a required field
\* missing; a null in the place of a list the extractor indexes or iterates
\* over; an empty `solutions` list.
ContainedFault ==
    /\ drawn.kind = "fault"
    /\ \/ drawn.level # "field"
       \/ drawn.fault = Missing
       \/ drawn.fault = JNull /\ <<drawn.game, drawn.field>> \in SequenceFields
       \/ drawn.field = "solutions" /\ drawn.fault = JList(<<>>)

DrawnIncluded == drawn.doc.d["included"].l
HasPuzzleField(item) ==
    /\ "gamePuzzle" \in DOMAIN item.d
    /\ item.d["gamePuzzle"].k = "obj"
    /\ "miniSudokuGamePuzzle" \in DOMAIN item.d["gamePuzzle"].d
    /\ item.d["gamePuzzle"].d["miniSudokuGamePuzzle"] # JNull
NonNullPlaces == {i \in 1..Len(DrawnIncluded) : HasPuzzleField(DrawnIncluded[i])}
FirstNonNull == DrawnIncluded[Lowest(NonNullPlaces)].d["gamePuzzle"].d["miniSudokuGamePuzzle"]

\* C8: the mini_sudoku extractor uses the first item of `included` whose
\* gamePuzzle.miniSudokuGamePuzzle is not null: its solution is the result,
\* and when that puzzle object is empty or incomplete the result is None, not
\* the solution of a later item; without such an item the result is None.
C8_FirstNonNullItem ==
    (ScannedDrawn /\ drawn.kind = "items") =>
        IF NonNullPlaces = {} THEN call.ret = JNull
        ELSE IF "solution" \in DOMAIN FirstNonNull.d
             THEN call.ret = FirstNonNull.d["solution"]
             ELSE call.ret = JNull

\* The puzzle object of a drawn "puzzle" document.
DrawnPuzzle == DrawnIncluded[1].d["gamePuzzle"].d["miniSudokuGamePuzzle"].d
FieldOr(d, key, default) == IF key \in DOMAIN d THEN d[key] ELSE default

\* C9: for a found puzzle object that has `solution`, the entry recorded is
\* {solution, grid_size, preset_cells, title} with grid_size = gridRowSize if
\* the key is present else 6, preset_cells = presetCellIdxes if present else
\* the empty sequence, title = name if present else 'Unknown'.
C9_EntryWithDefaults ==
    (ScannedDrawn /\ drawn.kind = "puzzle") =>
        results["mini_sudoku"] =
            JObj([solution |-> DrawnPuzzle["solution"],
                  grid_size |-> FieldOr(DrawnPuzzle, "gridRowSize", JNum(6)),
                  preset_cells |-> FieldOr(DrawnPuzzle, "presetCellIdxes", JList(<<>>)),
                  title |-> FieldOr(DrawnPuzzle, "name",
                                    JStr(<<"U", "n", "k", "n", "o", "w", "n">>))])

\* The tokens of a drawn Tango document.
DrawnTokenList == DrawnIncluded[1].d["gamePuzzle"].d["lotkaGamePuzzle"].d["solution"].l

\* C10: for every list of tokens the Tango extractor yields, and records
\* under 'tango', the string of the list's length whose i-th character is '1'
\* exactly when the i-th token is 'ONE' and '0' otherwise; for the empty list
\* that is the empty string, recorded as an entry and not None.
C10_TangoBits ==
    (ScannedDrawn /\ drawn.kind = "tokens") =>
        /\ call.ret.k = "str"
        /\ Len(call.ret.s) = Len(DrawnTokenList)
        /\ \A i \in 1..Len(DrawnTokenList) :
              /\ call.ret.s[i] \in {"0", "1"}
              /\ call.ret.s[i] = "1" <=> DrawnTokenList[i] = JStr(<<"O", "N", "E">>)
        /\ results["tango"] = call.ret
        /\ DrawnTokenList = <<>> => (call.ret = JStr(<<>>) /\ results["tango"] # Absent)

\* The tokens ONE, TWO, ONE were read as "101".
C10_Witness ==
    /\ ScannedDrawn
    /\ drawn.kind = "tokens"
    /\ DrawnTokenList = <<JStr(<<"O", "N", "E">>), JStr(<<"T", "W", "O">>), JStr(<<"O", "N", "E">>)>>
    /\ call.ret = JStr(<<"1", "0", "1">>)
    /\ results["tango"] = JStr(<<"1", "0", "1">>)

-----------------------------------------------------------------------------
(* Properties of the CrossClimb extractor (under SpecDocs).                *)

\* The rungs of a drawn CrossClimb document and the pair made of a rung.
DrawnRungList == DrawnIncluded[1].d["gamePuzzle"].d["crossClimbGamePuzzle"].d["rungs"].l
PairOf(rung) == PyTuple(<<rung.d["solutionRungIndex"], rung.d["word"]>>)

\* The one-to-one maps of 1..n onto itself.
RungOrders(n) == {p \in [1..n -> 1..n] : \A i, j \in 1..n : p[i] = p[j] => i = j}

\* C11: for every list of rungs the CrossClimb extractor outputs the
\* (index, word) pairs of exactly the input rungs (as many, each input rung
\* once), ascending by solutionRungIndex, rungs of equal index in their
\* input order.
C11_StableSortedPairs ==
    (ScannedDrawn /\ drawn.kind = "rungs") =>
        /\ ~call.raised
        /\ call.ret.k = "list"
        /\ Len(call.ret.l) = Len(DrawnRungList)
        /\ results["crossclimb"] = call.ret
        /\ \E p \in RungOrders(Len(DrawnRungList)) :
              /\ \A i \in 1..Len(DrawnRungList) : call.ret.l[i] = PairOf(DrawnRungList[p[i]])
              /\ \A i, j \in 1..Len(DrawnRungList) :
                    i < j =>
                        LET a == DrawnRungList[p[i]].d["solutionRungIndex"].n
                            b == DrawnRungList[p[j]].d["solutionRungIndex"].n
                        IN  a <= b /\ (a = b => p[i] < p[j])

\* The rungs (1,B), (1,A), (0,A) came out as (0,A), (1,B), (1,A).
C11_Witness ==
    /\ ScannedDrawn
    /\ drawn.kind = "rungs"
    /\ DrawnRungList = <<Rung(JNum(1), "B"), Rung(JNum(1), "A"), Rung(JNum(0), "A")>>
    /\ call.ret = JList(<<PairOf(Rung(JNum(0), "A")), PairOf(Rung(JNum(1), "B")),
                          PairOf(Rung(JNum(1), "A"))>>)

-----------------------------------------------------------------------------
(* Properties of the Zip extractor (under Spec).                           *)

\* The last call was a Zip extraction that wrote the store.
ZipExtracted == call.game = "zip" /\ call.wrote
ZipPuzzleOf(doc) == doc.d["included"].l[1].d["gamePuzzle"].d["trailGamePuzzle"].d

\* C12: after a successful zip extraction the value under 'zip' is the
\* document's trailGamePuzzle.orderedSequence, the value solve_zip returns.
C12_ZipKeyIsSequence ==
    ZipExtracted =>
        /\ call.ret = ZipPuzzleOf(call.doc)["orderedSequence"]
        /\ results["zip"] = ZipPuzzleOf(call.doc)["orderedSequence"]
        /\ results["zip"] = call.ret

-----------------------------------------------------------------------------
(* Properties of the game table (under Spec).                              *)

\* The exchange the last call of the matcher returned the body of.
MatchedUrl == requests[call.idx].url

\* C13 as stated: the matcher invoked for game g selects only exchanges whose
\* URL carries 'gameTypeId:' followed by g's identifier in the table
\* pinpoint 1, crossclimb 2, zip 3, queens 5, tango 6, mini_sudoku 7.
C13_IdsInSolveOrder ==
    call.idx # 0 => Contains(MatchedUrl, GameTypeParam(TypeIdsInSolveOrder[call.game]))

\* C13 amended: the identifiers are 1 for pinpoint, 2 for crossclimb, 3 for
\* queens, 5 for tango, 6 for zip and 7 for mini_sudoku, 4 is the identifier
\* of no game, and the matcher invoked for game g selects only exchanges
\* whose URL carries 'gameTypeId:' followed by g's identifier in this table.
C13_IdsOfTheTable ==
    /\ GAME_TYPE_IDS["pinpoint"] = 1
    /\ GAME_TYPE_IDS["crossclimb"] = 2
    /\ GAME_TYPE_IDS["queens"] = 3
    /\ GAME_TYPE_IDS["tango"] = 5
    /\ GAME_TYPE_IDS["zip"] = 6
    /\ GAME_TYPE_IDS["mini_sudoku"] = 7
    /\ \A g \in Games : GAME_TYPE_IDS[g] # 4
    /\ call.idx # 0 =>
          LET id == CASE call.game = "pinpoint" -> 1 [] call.game = "crossclimb" -> 2
                      [] call.game = "queens" -> 3 [] call.game = "tango" -> 5
                      [] call.game = "zip" -> 6 [] call.game = "mini_sudoku" -> 7
          IN  Contains(MatchedUrl, GameTypeParam(id))

\* The matcher invoked for zip passed over an exchange that carries
\* gameTypeId:3 and returned one that carries gameTypeId:6.
C13_Witness ==
    /\ call.game = "zip"
    /\ call.idx = 2
    /\ Contains(requests[1].url, GameTypeParam(3))
    /\ Contains(MatchedUrl, GameTypeParam(6))

-----------------------------------------------------------------------------
(* Properties of the order of the games (under Spec).                      *)

Terminal == {"Solved", "TimedOut"}
Probing == {g \in Games : status[g] = "Probing"}

\* C14: solve_all_games runs the games one after another in the order
\* pinpoint, crossclimb, zip, queens, tango, mini_sudoku: at most one game
\* is Probing at any time, and a game's window has begun only if the game
\* before it has reached Solved or TimedOut.
C14_OneGameAtATime ==
    /\ Cardinality(Probing) <= 1
    /\ status["crossclimb"] # "Idle" => status["pinpoint"] \in Terminal
    /\ status["zip"] # "Idle" => status["crossclimb"] \in Terminal
    /\ status["queens"] # "Idle" => status["zip"] \in Terminal
    /\ status["tango"] # "Idle" => status["queens"] \in Terminal
    /\ status["mini_sudoku"] # "Idle" => status["tango"] \in Terminal

\* Zip is probing after pinpoint was solved and crossclimb timed out.
C14_Witness ==
    /\ status["pinpoint"] = "Solved"
    /\ status["crossclimb"] = "TimedOut"
    /\ status["zip"] = "Probing"
    /\ call.game = "zip"
    /\ status["queens"] = "Idle"

-----------------------------------------------------------------------------
(* Properties of the ResultStore (under SpecDocs and Spec).                *)

\* C15: an extraction attempt that returns None leaves the ResultStore
\* exactly unchanged: no key is added, removed or given a new value.
C15_AbsentLeavesStore ==
    [][(call'.game # "" /\ call'.ret = JNull) => results' = results]_vars

\* C16: during one run of solve_all_games the entry of each game is written
\* at most once: no poll of a game's window writes the entry a second time.
C16_WrittenOnce == writes <= 1

\* The keys that have an entry in a store.
KeysOf(res) == {key \in ResultKeys : res[key] # Absent}

\* C17: the ResultStore is empty when the GameSolver is created, its key set
\* only grows, and a key is added only by an extraction that succeeds, i.e.
\* in a poll whose extractor returns a result.
C17_KeysOnlyGrow ==
    /\ results = EmptyResults
    /\ [][/\ KeysOf(results) \subseteq KeysOf(results')
          /\ KeysOf(results') # KeysOf(results) =>
                (call'.game # "" /\ call'.wrote /\ call'.ret # JNull)]_vars

-----------------------------------------------------------------------------
(* Properties of the game table, continued (under Spec).                   *)

SixGames == {"pinpoint", "crossclimb", "zip", "queens", "tango", "mini_sudoku"}

\* The response the browser captures for the game solved after g.
ResponseOfNext(g) == Wrap(PuzzleKey[NextGame(g)], GoodPuzzle[NextGame(g)])

\* C18: each of the six games has a navigation URL and a numeric type
\* identifier, the six identifiers are pairwise distinct, and this is so in
\* every reachable state; the identifiers being distinct, the matcher of a
\* game never returns the response addressed to the game solved after it.
C18_TableWellFormed ==
    /\ Games = SixGames
    /\ DOMAIN GAME_URLS = SixGames
    /\ DOMAIN GAME_TYPE_IDS = SixGames
    /\ \A g \in SixGames : GAME_TYPE_IDS[g] \in Nat /\ GAME_URLS[g] # ""
    /\ \A g, h \in SixGames : g # h => GAME_TYPE_IDS[g] # GAME_TYPE_IDS[h]
    /\ call.idx # 0 => call.doc # ResponseOfNext(call.game)

\* Every operation has run (the six games, cleanup and the save), with a
\* response addressed to another game in the ledger of the last poll.
C18_Witness ==
    /\ pc = "done"
    /\ saved # Absent
    /\ call.idx = 2
    /\ requests[1].response = ResponseOfNext(call.game)

-----------------------------------------------------------------------------
(* Termination of the polling loops (under SpecDocsLive).                  *)

\* A step in which the extractor of game g is called: the poll ends the game
\* with a solution or is followed by the sleep.
ProbeStep(g) ==
    /\ call'.game = g
    /\ \/ now' = now + PollInterval
       \/ status[g] # "Solved" /\ status'[g] = "Solved"

\* C19: the clock advancing, every game that is Probing reaches Solved or
\* TimedOut and stays in the one it reached; the extractor is called only
\* while the game is Probing and the time is before the deadline, hence
\* never after the game became terminal; and a game becomes TimedOut, i.e.
\* stops without a solution, only at or after the deadline.
C19_ProbingEnds ==
    /\ \A g \in Games : (status[g] = "Probing") ~> (status[g] \in Terminal)
    /\ [][\A g \in Games :
             /\ ProbeStep(g) => (status[g] = "Probing" /\ now < end_time)
             /\ status[g] \in Terminal => status'[g] = status[g]
             /\ (status[g] # "TimedOut" /\ status'[g] = "TimedOut") =>
                    (status[g] = "Probing" /\ now >= end_time /\ ~Truthy(solution))]_vars

\* The run is over with a game that was solved and games that timed out,
\* the last one at its deadline after TimeoutSeconds polls.
C19_Witness ==
    /\ pc = "done"
    /\ status["pinpoint"] = "TimedOut"
    /\ status["tango"] = "Solved"
    /\ status["mini_sudoku"] = "TimedOut"
    /\ now = end_time
    /\ absentPolls = TimeoutSeconds

-----------------------------------------------------------------------------
(* Properties of the ledger within a window (under Spec).                  *)

\* The ledger a kept with nothing removed and nothing changed.
Extends(a, b) == Len(a) <= Len(b) /\ SubSeq(b, 1, Len(a)) = a

\* The step of solve_<game> that begins a window.
WindowBegins == pc = "start" /\ pc' = "loop"

\* C20: the ledger is reset once per solve_<game> call, in the step that
\* begins the game's window, and nowhere else: every other step keeps what
\* the ledger holds, a call of an extractor (and of the matcher in it) leaves
\* the ledger as it is, and so the ledger seen by the successive polls of a
\* window only grows.
C20_ResetOnlyAtWindowStart ==
    [][/\ WindowBegins => (requests' = <<>> /\ epoch' = epoch + 1)
       /\ ~WindowBegins => (Extends(requests, requests') /\ epoch' = epoch)
       /\ (\E g \in Games : ProbeStep(g)) => requests' = requests]_vars

\* In the third window or a later one the ledger holds two exchanges, both
\* captured in this window, and has been polled at least twice.
C20_Witness ==
    /\ pc = "loop"
    /\ epoch >= 3
    /\ Len(requests) = 2
    /\ \A i \in 1..Len(requests) : requests[i].epoch = epoch
    /\ now >= 2

-----------------------------------------------------------------------------
(* Properties of the Mini Sudoku result (under SpecDocs).                  *)

\* C21: for a found puzzle object with a `solution`, the result returned and
\* the `solution` of the entry stored are the flat sequence unchanged,
\* whatever gridRowSize is: present, missing, zero, larger than the solution,
\* null or not an integer.
C21_FlatSolutionKept ==
    (ScannedDrawn /\ drawn.kind = "puzzle") =>
        /\ ~call.raised
        /\ call.ret = DrawnPuzzle["solution"]
        /\ results["mini_sudoku"] # Absent
        /\ IF results["mini_sudoku"] = Absent THEN FALSE
           ELSE results["mini_sudoku"].d["solution"] = DrawnPuzzle["solution"]

-----------------------------------------------------------------------------
(* Properties of the document polled in a window (under Spec).             *)

\* The places of the ledger that qualify for the game of the last call and
\* whose body decodes.
CallPlaces ==
    {i \in 1..Len(requests) :
        Qualifies(requests[i], GAME_TYPE_IDS[call.game]) /\ requests[i].response # Garbage}

\* A document carries the puzzle payload of game g at included[0].gamePuzzle.
HasPayload(doc, g) ==
    /\ doc.k = "obj"
    /\ "included" \in DOMAIN doc.d
    /\ doc.d["included"].k = "list"
    /\ doc.d["included"].l # <<>>
    /\ doc.d["included"].l[1].k = "obj"
    /\ "gamePuzzle" \in DOMAIN doc.d["included"].l[1].d
    /\ doc.d["included"].l[1].d["gamePuzzle"].k = "obj"
    /\ PuzzleKey[g] \in DOMAIN doc.d["included"].l[1].d["gamePuzzle"].d

\* C22: within a window every poll that finds a document applies the
\* extractor to the same one, the first qualifying exchange whose body
\* decodes, whatever is captured after it; if that document does not carry
\* the game's puzzle payload every poll returns None and the game is not
\* solved but ends TimedOut, even with a later qualifying exchange that has
\* a well-formed solution.
C22_SameDocumentEveryPoll ==
    /\ [](call.idx # 0 =>
            /\ call.idx = Lowest(CallPlaces)
            /\ call.doc = requests[call.idx].response
            /\ ~HasPayload(call.doc, call.game) =>
                  /\ call.ret = JNull
                  /\ status[call.game] \in {"Probing", "TimedOut"}
                  /\ results[call.game] = Absent)
    /\ [][(call.idx # 0 /\ call'.game = call.game) =>
             (call'.idx = call.idx /\ call'.doc = call.doc)]_vars

\* Pinpoint timed out on a first document without the payload while the
\* exchange captured after it qualifies and carries a well-formed solution.
C22_Witness ==
    /\ call.game = "pinpoint"
    /\ status["pinpoint"] = "TimedOut"
    /\ call.idx = 1
    /\ ~HasPayload(requests[1].response, "pinpoint")
    /\ Len(requests) >= 2
    /\ Qualifies(requests[2], GAME_TYPE_IDS["pinpoint"])
    /\ requests[2].response = Wrap(PuzzleKey["pinpoint"], GoodPuzzle["pinpoint"])

-----------------------------------------------------------------------------
(* Properties of the auxiliary keys (under SpecDocs).                      *)

InStore(key) == results[key] # Absent

\* A drawn zip or queens document without one of its three fields, or with
\* a colorGrid whose row is not a row object.
LacksOneOfThree ==
    /\ drawn.kind = "fault"
    /\ drawn.game \in {"zip", "queens"}
    /\ drawn.level = "field"
    /\ \/ drawn.fault = Missing
       \/ drawn.field = "colorGrid" /\ drawn.fault = JList(<<JNum(1)>>)

\* C23: 'zip' is in the store if and only if 'zip_sequence' and 'zip_grid'
\* are, and 'queens' if and only if 'queens_board' and 'queens_grid' are; a
\* document missing one of the three zip (or queens) fields, or with a
\* malformed colorGrid row, adds none of the three keys.
C23_AllOrNothing ==
    /\ InStore("zip") <=> (InStore("zip_sequence") /\ InStore("zip_grid"))
    /\ InStore("zip_sequence") <=> InStore("zip_grid")
    /\ InStore("queens") <=> (InStore("queens_board") /\ InStore("queens_grid"))
    /\ InStore("queens_board") <=> InStore("queens_grid")
    /\ LacksOneOfThree =>
          \A key \in {drawn.game} \cup AuxKeys[drawn.game] : ~InStore(key)

\* A queens document whose colorGrid row is malformed was polled: the pairs
\* could be made, and none of the three keys was added.
C23_Witness ==
    /\ ScannedDrawn
    /\ drawn.game = "queens"
    /\ drawn.field = "colorGrid"
    /\ drawn.fault = JList(<<JNum(1)>>)
    /\ call.ret = JNull
    /\ ~call.wrote
    /\ ~InStore("queens") /\ ~InStore("queens_board") /\ ~InStore("queens_grid")

-----------------------------------------------------------------------------
(* Isolation of the games by identifier (under SpecAllGames).              *)

\* The URL that carries 'gameTypeId:<id of h>' and no other gameTypeId token.
AddressedTo(h) ==
    <<"https://www.linkedin.com/", "voyager/api/graphql", "?variables=(", "gameTypeId:">>
        \o Decimal(GAME_TYPE_IDS[h])
        \o <<")&queryId=", "voyagerIdentityDashGames", ".0f5c">>

\* C24: for any two distinct games g and h, the matcher invoked for g does
\* not select an exchange whose URL is addressed to h: it returns the first
\* exchange addressed to g, and None when the ledger holds only exchanges
\* addressed to other games.
C24_NoCrossMatch ==
    pc = "matched" =>
        LET own == {i \in 1..Len(requests) : requests[i].url = AddressedTo(call.game)}
        IN  /\ \A h \in Games \ {call.game} :
                  call.idx # 0 => requests[call.idx].url # AddressedTo(h)
            /\ own = {} => (call.idx = 0 /\ call.ret = JNull)
            /\ own # {} => call.idx = Lowest(own)

\* The matcher invoked for pinpoint passed over exchanges addressed to zip
\* and to mini_sudoku and returned the one addressed to pinpoint.
C24_Witness ==
    /\ pc = "matched"
    /\ call.game = "pinpoint"
    /\ Len(requests) = 3
    /\ requests[1].url = AddressedTo("zip")
    /\ requests[2].url = AddressedTo("mini_sudoku")
    /\ requests[3].url = AddressedTo("pinpoint")
    /\ call.idx = 3

=============================================================================
